---- MODULE Spec2Model ----
(***************************************************************************)
(* Order-to-invoice transformation of the Xero integration server          *)
(* (src/routes/order-to-invoice.js).                                       *)
(*                                                                         *)
(* JavaScript values are tagged records of one shape, strings are          *)
(* sequences of one-character strings, and numbers are exact rationals     *)
(* n/d.  Every numeral of the input sets below is a dyadic rational of     *)
(* small magnitude, on which IEEE-754 double arithmetic is exact, so the   *)
(* rational arithmetic here is the arithmetic the program performs.        *)
(***************************************************************************)
EXTENDS Integers, Sequences, FiniteSets

VARIABLES order, result, now, tokens, envSet, invoiceRecords, request, calls,
          response, served, isAuthInProgress, lastAuthTime, clock, timers,
          flows, cwd, files, globalTenantId, webhookTenantId, callback,
          clockTolerance, validations, configured

vars ==
  <<order, result, now, tokens, envSet, invoiceRecords, request, calls,
    response, served, isAuthInProgress, lastAuthTime, clock, timers, flows,
    cwd, files, globalTenantId, webhookTenantId, callback, clockTolerance,
    validations, configured>>

----------------------------------------------------------------------------
(* JavaScript values                                                       *)

JS(t, s, n, d) == [t |-> t, s |-> s, n |-> n, d |-> d]

Undef == JS("undefined", <<>>, 0, 1)
Null == JS("null", <<>>, 0, 1)
Str(s) == JS("string", s, 0, 1)
Num(n, d) == JS("number", <<>>, n, d)
IntNum(n) == Num(n, 1)
NaN == JS("nan", <<>>, 0, 1)
PosInf == JS("inf", <<>>, 1, 1)
NegInf == JS("inf", <<>>, -1, 1)
True == JS("boolean", <<>>, 1, 1)
False == JS("boolean", <<>>, 0, 1)
Obj == JS("object", <<>>, 0, 1)

\* ToBoolean: what `x ? a : b`, `x || y` and `x && y` test.
Truthy(v) ==
  CASE v.t = "undefined" -> FALSE
    [] v.t = "null" -> FALSE
    [] v.t = "nan" -> FALSE
    [] v.t = "string" -> v.s # <<>>
    [] v.t = "number" -> v.n # 0
    [] v.t = "boolean" -> v.n = 1
    [] OTHER -> TRUE

\* a || b
Or(a, b) == IF Truthy(a) THEN a ELSE b

----------------------------------------------------------------------------
(* Characters and numerals                                                 *)

Digits == <<"0", "1", "2", "3", "4", "5", "6", "7", "8", "9">>

IsDigit(c) == \E i \in 1..10 : Digits[i] = c

DigitVal(c) == (CHOOSE i \in 1..10 : Digits[i] = c) - 1

IsSpace(c) == c \in {" ", "\t", "\n"}

Abs(n) == IF n < 0 THEN -n ELSE n

RECURSIVE Pow10(_)
Pow10(k) == IF k = 0 THEN 1 ELSE 10 * Pow10(k - 1)

\* Decimal digits of a natural number.
RECURSIVE NatDigits(_)
NatDigits(n) ==
  IF n < 10 THEN <<Digits[n + 1]>>
  ELSE NatDigits(n \div 10) \o <<Digits[(n % 10) + 1]>>

\* The digits of the fraction r/d (0 <= r < d), until it terminates.
RECURSIVE FracDigits(_, _)
FracDigits(r, d) ==
  IF r = 0 THEN <<>>
  ELSE <<Digits[((10 * r) \div d) + 1]>> \o FracDigits((10 * r) % d, d)

\* Number::toString for a finite n/d in plain decimal notation
\* (1e-7 <= |x| < 1e21, which every number of the model is).
NumberToString(n, d) ==
  LET a == Abs(n)
      ip == NatDigits(a \div d)
      fp == FracDigits(a % d, d)
  IN (IF n < 0 THEN <<"-">> ELSE <<>>) \o ip
       \o (IF fp = <<>> THEN <<>> ELSE <<".">> \o fp)

\* ToString, as applied by template literals and by parseFloat/parseInt
\* to their argument.
JSToString(v) ==
  CASE v.t = "string" -> v.s
    [] v.t = "undefined" -> <<"u", "n", "d", "e", "f", "i", "n", "e", "d">>
    [] v.t = "null" -> <<"n", "u", "l", "l">>
    [] v.t = "nan" -> <<"N", "a", "N">>
    [] v.t = "inf" -> (IF v.n < 0 THEN <<"-">> ELSE <<>>)
                        \o <<"I", "n", "f", "i", "n", "i", "t", "y">>
    [] v.t = "number" -> NumberToString(v.n, v.d)
    [] v.t = "boolean" -> IF v.n = 1 THEN <<"t", "r", "u", "e">>
                          ELSE <<"f", "a", "l", "s", "e">>
    [] OTHER -> <<"[", "o", "b", "j", "e", "c", "t", " ",
                  "O", "b", "j", "e", "c", "t", "]">>

\* Index of the first character of s at or after i that is not white space.
RECURSIVE SkipSpace(_, _)
SkipSpace(s, i) ==
  IF i <= Len(s) /\ IsSpace(s[i]) THEN SkipSpace(s, i + 1) ELSE i

\* Index of the first character of s at or after i that is not a digit.
RECURSIVE SkipDigits(_, _)
SkipDigits(s, i) ==
  IF i <= Len(s) /\ IsDigit(s[i]) THEN SkipDigits(s, i + 1) ELSE i

\* Value of the digits s[i..j-1] (0 when empty).
RECURSIVE DigitsVal(_, _, _)
DigitsVal(s, i, j) ==
  IF i >= j THEN 0 ELSE 10 * DigitsVal(s, i, j - 1) + DigitVal(s[j - 1])

HasPrefixAt(s, i, p) ==
  /\ i + Len(p) - 1 <= Len(s)
  /\ \A k \in 1..Len(p) : s[i + k - 1] = p[k]

\* parseFloat: leading white space, an optional sign, then the longest
\* prefix that is "Infinity" or digits with an optional fraction.  (An
\* exponent part is not parsed: no numeral of the input sets has one.)
parseFloat(v) ==
  LET s == JSToString(v)
      i0 == SkipSpace(s, 1)
      neg == i0 <= Len(s) /\ s[i0] = "-"
      i1 == IF i0 <= Len(s) /\ s[i0] \in {"-", "+"} THEN i0 + 1 ELSE i0
      i2 == SkipDigits(s, i1)
      dot == i2 <= Len(s) /\ s[i2] = "."
      i3 == IF dot THEN SkipDigits(s, i2 + 1) ELSE i2
      nfrac == IF dot THEN i3 - (i2 + 1) ELSE 0
      ip == DigitsVal(s, i1, i2)
      fp == IF dot THEN DigitsVal(s, i2 + 1, i3) ELSE 0
      mag == ip * Pow10(nfrac) + fp
  IN IF HasPrefixAt(s, i1, <<"I", "n", "f", "i", "n", "i", "t", "y">>)
       THEN (IF neg THEN NegInf ELSE PosInf)
     ELSE IF i2 = i1 /\ nfrac = 0 THEN NaN
     ELSE Num(IF neg THEN -mag ELSE mag, Pow10(nfrac))

\* parseInt with no radix: leading white space, an optional sign, then the
\* longest prefix of decimal digits.  (No numeral of the input sets has a
\* 0x prefix.)
parseInt(v) ==
  LET s == JSToString(v)
      i0 == SkipSpace(s, 1)
      neg == i0 <= Len(s) /\ s[i0] = "-"
      i1 == IF i0 <= Len(s) /\ s[i0] \in {"-", "+"} THEN i0 + 1 ELSE i0
      i2 == SkipDigits(s, i1)
      mag == DigitsVal(s, i1, i2)
  IN IF i2 = i1 THEN NaN ELSE IntNum(IF neg THEN -mag ELSE mag)

\* a * b on numbers (IEEE-754: NaN is absorbing, 0 * Infinity is NaN).
Mul(a, b) ==
  IF a.t = "nan" \/ b.t = "nan" THEN NaN
  ELSE IF a.t = "inf" \/ b.t = "inf"
    THEN (IF a.n = 0 \/ b.n = 0 THEN NaN
          ELSE IF (a.n < 0) = (b.n < 0) THEN PosInf ELSE NegInf)
  ELSE Num(a.n * b.n, a.d * b.d)

\* -a
Neg(a) == IF a.t = "nan" THEN NaN ELSE [a EXCEPT !.n = -a.n]

\* a > 0
GtZero(a) == a.t \in {"number", "inf"} /\ a.n > 0

\* Number.prototype.toFixed(2): nearest multiple of 1/100, the larger one
\* on a tie, computed on the magnitude; the sign is put in front.
toFixed2(a) ==
  IF a.t # "number" THEN JSToString(a)
  ELSE LET m == Abs(a.n)
           q == (200 * m + a.d) \div (2 * a.d)
           c == q % 100
       IN (IF a.n < 0 THEN <<"-">> ELSE <<>>) \o NatDigits(q \div 100)
            \o <<".", Digits[(c \div 10) + 1], Digits[(c % 10) + 1]>>

----------------------------------------------------------------------------
(* Raw orders.  An absent field of an object is the value undefined; an    *)
(* object-valued field carries a tag t saying what the input holds there.  *)

\* What reading any field of `{}` (or of a primitive) gives.
NoAddress ==
  [t |-> "undefined", name |-> Undef, email |-> Undef, phone |-> Undef,
   address1 |-> Undef, address2 |-> Undef, city |-> Undef,
   province |-> Undef, state |-> Undef, zip |-> Undef, country |-> Undef]

NoCustomer ==
  [t |-> "undefined", first_name |-> Undef, last_name |-> Undef,
   email |-> Undef, default_address |-> NoAddress]

\* x || {} for an object-valued field x
ObjTruthy(x) == x.t \notin {"undefined", "null"}

\* The lookup with the first entry named key winning.
RECURSIVE PropGet_firstWins(_, _)
PropGet_firstWins(entries, key) ==
  IF entries = <<>> THEN Undef
  ELSE IF JSToString(entries[1].name) = key THEN entries[1].value
  ELSE PropGet_firstWins(Tail(entries), key)

\* The last entry named key wins in Object.fromEntries; a key that no
\* entry names reads as undefined.
RECURSIVE PropGet(_, _)
PropGet(entries, key) ==
  IF entries = <<>> THEN Undef
  ELSE IF JSToString(entries[Len(entries)].name) = key
    THEN entries[Len(entries)].value
  ELSE PropGet(SubSeq(entries, 1, Len(entries) - 1), key)

kLength == <<"L", "e", "n", "g", "t", "h">>
kWidth == <<"W", "i", "d", "t", "h">>
kPricePerSqFt == <<"P", "r", "i", "c", "e", "P", "e", "r", "S", "q", "F", "t">>

\* item.properties.map(...) is a TypeError when properties is truthy and
\* has no map method (any non-array value the JSON body may hold there).
PropsThrows(item) ==
  ObjTruthy(item.properties) /\ item.properties.t # "array"

\* const props = item.properties ? Object.fromEntries(...) : {}
propsEntries(item) ==
  IF item.properties.t = "array" THEN item.properties.entries ELSE <<>>

\* The area test without its PricePerSqFt conjunct.
AreaPricing_noPrice(item) ==
  LET e == propsEntries(item)
  IN Truthy(PropGet(e, kLength)) /\ Truthy(PropGet(e, kWidth))

\* if (props.Length && props.Width && props.PricePerSqFt)
AreaPricing(item) ==
  LET e == propsEntries(item)
  IN /\ Truthy(PropGet(e, kLength))
     /\ Truthy(PropGet(e, kWidth))
     /\ Truthy(PropGet(e, kPricePerSqFt))

area(item) ==
  LET e == propsEntries(item)
  IN Mul(parseFloat(PropGet(e, kLength)), parseFloat(PropGet(e, kWidth)))

\* unitAmount without the `|| 0` default.
unitAmount_noDefault(item) ==
  IF AreaPricing(item)
    THEN Mul(area(item), parseFloat(PropGet(propsEntries(item), kPricePerSqFt)))
  ELSE parseFloat(item.price)

\* let unitAmount = parseFloat(item.price) || 0, overridden by the area rule
unitAmount(item) ==
  IF AreaPricing(item)
    THEN Mul(area(item), parseFloat(PropGet(propsEntries(item), kPricePerSqFt)))
  ELSE Or(parseFloat(item.price), IntNum(0))

\* let quantity = parseInt(item.quantity) || 1, overridden by the area rule
quantity(item) ==
  IF AreaPricing(item) THEN IntNum(1)
  ELSE Or(parseInt(item.quantity), IntNum(1))

\* let description = item.title || item.name || "Product", overridden by
\* the area rule
description(item) ==
  LET e == propsEntries(item)
  IN IF AreaPricing(item)
       THEN Str(JSToString(item.title) \o <<" ", "-", " ">>
                \o JSToString(PropGet(e, kLength)) \o <<"f", "t", " ", "x", " ">>
                \o JSToString(PropGet(e, kWidth)) \o <<"f", "t", " ", "(">>
                \o toFixed2(area(item)) \o <<" ", "s", "q", " ", "f", "t", ")">>)
     ELSE Or(item.title, Or(item.name, Str(<<"P", "r", "o", "d", "u", "c", "t">>)))

accountCode == Str(<<"2", "0", "0">>)

\* The line with its quantity counted up by the records the server holds.
lineItem_countingRecords(item) ==
  [description |-> description(item),
   quantity |-> IntNum(Cardinality(DOMAIN invoiceRecords) + 1),
   unitAmount |-> Str(toFixed2(unitAmount(item))),
   accountCode |-> accountCode,
   itemCode |-> IF Truthy(item.sku) THEN item.sku ELSE Undef,
   taxType |-> IF Truthy(item.taxable) THEN Str(<<"O", "U", "T", "P", "U", "T">>)
               ELSE Undef]

\* The object the map callback returns for one raw line item.
lineItem(item) ==
  [description |-> description(item),
   quantity |-> quantity(item),
   unitAmount |-> Str(toFixed2(unitAmount(item))),
   accountCode |-> accountCode,
   itemCode |-> IF Truthy(item.sku) THEN item.sku ELSE Undef,
   taxType |-> IF Truthy(item.taxable) THEN Str(<<"O", "U", "T", "P", "U", "T">>)
               ELSE Undef]

syntheticLine(desc, amount) ==
  [description |-> Str(desc), quantity |-> IntNum(1),
   unitAmount |-> Str(toFixed2(amount)), accountCode |-> accountCode,
   itemCode |-> Undef, taxType |-> Undef]

\* (order.line_items || [])
rawItems(o) == IF ObjTruthy(o.line_items) THEN o.line_items.items ELSE <<>>

\* .map on a truthy non-array line_items, or on a non-array properties
\* inside the callback, is a TypeError that leaves the function.
Throws(o) ==
  \/ ObjTruthy(o.line_items) /\ o.line_items.t # "array"
  \/ \E i \in 1..Len(rawItems(o)) : PropsThrows(rawItems(o)[i])

baseLines(o) == [i \in 1..Len(rawItems(o)) |-> lineItem(rawItems(o)[i])]

\* const taxAmount = parseFloat(order.total_tax) || 0 (never used after)
taxAmount(o) == Or(parseFloat(o.total_tax), IntNum(0))

\* parseFloat(order.shipping_lines?.[0]?.price || 0)
shippingAmount(o) ==
  LET first == IF o.shipping_lines.t = "array" /\ Len(o.shipping_lines.items) >= 1
                 THEN o.shipping_lines.items[1].price ELSE Undef
  IN parseFloat(Or(first, IntNum(0)))

\* parseFloat(order.total_discounts) || 0
discountAmount(o) == Or(parseFloat(o.total_discounts), IntNum(0))

shippingLines(o) ==
  IF GtZero(shippingAmount(o))
    THEN <<syntheticLine(<<"S", "h", "i", "p", "p", "i", "n", "g">>, shippingAmount(o))>>
  ELSE <<>>

\* The discount line with the amount left positive.
discountLines_unsigned(o) ==
  IF GtZero(discountAmount(o))
    THEN <<syntheticLine(<<"D", "i", "s", "c", "o", "u", "n", "t">>,
                         discountAmount(o))>>
  ELSE <<>>

discountLines(o) ==
  IF GtZero(discountAmount(o))
    THEN <<syntheticLine(<<"D", "i", "s", "c", "o", "u", "n", "t">>,
                         Neg(discountAmount(o)))>>
  ELSE <<>>

\* The line items with total_tax folded in as a line of its own.
lineItems_withTax(o) ==
  baseLines(o) \o shippingLines(o) \o discountLines(o)
    \o (IF GtZero(taxAmount(o))
          THEN <<syntheticLine(<<"T", "a", "x">>, taxAmount(o))>>
        ELSE <<>>)

lineItems(o) == baseLines(o) \o shippingLines(o) \o discountLines(o)

customerOf(o) == IF o.customer.t = "object" THEN o.customer ELSE NoCustomer

\* order.billing_address || customer.default_address || {}
billingOf(o) ==
  IF o.billing_address.t = "object" THEN o.billing_address
  ELSE IF customerOf(o).default_address.t = "object"
    THEN customerOf(o).default_address
  ELSE NoAddress

\* The name fallbacks with customer_name tried before billing.name.
contactName_customerNameFirst(o) ==
  LET c == customerOf(o)
  IN IF Truthy(c.first_name) /\ Truthy(c.last_name)
       THEN Str(JSToString(c.first_name) \o <<" ">> \o JSToString(c.last_name))
     ELSE Or(o.customer_name,
             Or(billingOf(o).name,
                Str(<<"W", "a", "l", "k", "-", "i", "n", " ",
                      "C", "u", "s", "t", "o", "m", "e", "r">>)))

contactName(o) ==
  LET c == customerOf(o)
  IN IF Truthy(c.first_name) /\ Truthy(c.last_name)
       THEN Str(JSToString(c.first_name) \o <<" ">> \o JSToString(c.last_name))
     ELSE Or(billingOf(o).name,
             Or(o.customer_name,
                Str(<<"W", "a", "l", "k", "-", "i", "n", " ",
                      "C", "u", "s", "t", "o", "m", "e", "r">>)))

\* The address entry with its sub-fields passed through undefaulted.
addresses_noDefaults(o) ==
  LET b == billingOf(o)
  IN IF Truthy(b.address1)
       THEN <<[addressType |-> Str(<<"P", "O", "B", "O", "X">>),
               addressLine1 |-> b.address1,
               addressLine2 |-> b.address2,
               city |-> b.city,
               region |-> Or(b.province, b.state),
               postalCode |-> b.zip,
               country |-> b.country]>>
     ELSE <<>>

addresses(o) ==
  LET b == billingOf(o)
      e == Str(<<>>)
  IN IF Truthy(b.address1)
       THEN <<[addressType |-> Str(<<"P", "O", "B", "O", "X">>),
               addressLine1 |-> b.address1,
               addressLine2 |-> Or(b.address2, e),
               city |-> Or(b.city, e),
               region |-> Or(b.province, Or(b.state, e)),
               postalCode |-> Or(b.zip, e),
               country |-> Or(b.country, e)]>>
     ELSE <<>>

contact(o) ==
  [name |-> contactName(o),
   emailAddress |-> Or(o.email, Or(customerOf(o).email, billingOf(o).email)),
   phone |-> IF Truthy(billingOf(o).phone) THEN billingOf(o).phone ELSE Undef,
   addresses |-> addresses(o)]

----------------------------------------------------------------------------
(* The clock.  Time is counted in ticks, TicksPerDay of them to a UTC day; *)
(* the builder reads the clock three times (lines 100, 101 and 102).       *)

TicksPerDay == 4

DueDays == 30

MaxClockStep == 1

StartTick == 2 * TicksPerDay - 1

\* new Date(t).toISOString().split('T')[0]: the UTC calendar day of t,
\* named by its day number.
isoDate(t) == [day |-> t \div TicksPerDay]

\* The number taken from name before order_number.
invoiceNumber_nameFirst(o, t3) ==
  Or(o.name, Or(o.order_number, Str(<<"I", "N", "V", "-">> \o NatDigits(t3))))

\* order.order_number || order.name || `INV-${Date.now()}`
invoiceNumber(o, t3) ==
  Or(o.order_number, Or(o.name, Str(<<"I", "N", "V", "-">> \o NatDigits(t3))))

\* `Order: ${order.order_number || order.id}`
reference(o) ==
  Str(<<"O", "r", "d", "e", "r", ":", " ">> \o JSToString(Or(o.order_number, o.id)))

\* The invoice document, the clock reading t1, t2 and t3 at its three reads.
invoiceDocument(o, t1, t2, t3) ==
  [type |-> Str(<<"A", "C", "C", "R", "E", "C">>),
   contact |-> contact(o),
   lineItems |-> lineItems(o),
   date |-> isoDate(t1),
   dueDate |-> isoDate(t2 + DueDays * TicksPerDay),
   invoiceNumber |-> invoiceNumber(o, t3),
   reference |-> reference(o),
   status |-> Str(<<"A", "U", "T", "H", "O", "R", "I", "S", "E", "D">>),
   currencyCode |-> Or(o.currency, Str(<<"U", "S", "D">>)),
   lineAmountTypes |-> IF Truthy(o.note) THEN Str(<<"E", "x", "c", "l", "u", "s", "i", "v", "e">>)
                       ELSE Undef]

\* What a call returns: the document, or the exception that leaves it.
transformOrderToInvoice(o, t1, t2, t3) ==
  IF Throws(o) THEN [status |-> "throw"]
  ELSE [status |-> "ok", doc |-> invoiceDocument(o, t1, t2, t3)]

----------------------------------------------------------------------------
(* Inputs.  Orders are drawn from three families, each varying the fields  *)
(* one part of the builder reads over a fixed base order.                  *)

Entry(n, v) == [name |-> Str(n), value |-> v]

NoProps == [t |-> "undefined", entries |-> <<>>]
NullProps == [t |-> "null", entries |-> <<>>]
ObjProps == [t |-> "object", entries |-> <<>>]
PropsList(es) == [t |-> "array", entries |-> es]

eL10 == Entry(kLength, Str(<<"1", "0">>))
eW8 == Entry(kWidth, Str(<<"8">>))
eP1_5 == Entry(kPricePerSqFt, Str(<<"1", ".", "5">>))

PropertiesInputs ==
  {NoProps, NullProps, ObjProps, PropsList(<<>>),
   PropsList(<<eL10, eW8, eP1_5>>),
   PropsList(<<eL10, eW8>>),
   PropsList(<<eP1_5>>),
   PropsList(<<Entry(kLength, Str(<<"a", "b", "c">>)), eW8, eP1_5>>),
   PropsList(<<Entry(kLength, IntNum(0)), eW8, eP1_5>>),
   PropsList(<<eL10, eW8, Entry(kPricePerSqFt, IntNum(0))>>),
   PropsList(<<Entry(kLength, IntNum(10)), Entry(kWidth, IntNum(8)),
               Entry(kPricePerSqFt, Num(3, 2))>>),
   PropsList(<<Entry(kLength, Str(<<"2", ".", "5">>)), Entry(kWidth, Str(<<"0", ".", "2", "5">>)), eP1_5>>),
   PropsList(<<eL10, eW8, eP1_5, Entry(kLength, Str(<<"4">>))>>),
   PropsList(<<Entry(kLength, IntNum(0)), eW8, eP1_5, eL10>>),
   PropsList(<<Entry(<<"l", "e", "n", "g", "t", "h">>, Str(<<"1", "0">>)), eW8, eP1_5>>)}

TitleInputs ==
  {<<Str(<<"R", "u", "g">>), Undef>>, <<Undef, Str(<<"M", "a", "t">>)>>, <<Undef, Undef>>}

PriceInputs == {Undef, Str(<<"a", "b", "c">>), Str(<<"2", "0">>), Num(25, 2)}

QuantityInputs ==
  {Undef, Str(<<"a", "b", "c">>), IntNum(2), Str(<<"3">>), IntNum(0), IntNum(-3)}

SkuInputs == {<<Undef, Undef>>, <<Str(<<"S", "K", "U", "1">>), True>>}

LineItemInputs ==
  {[title |-> tn[1], name |-> tn[2], price |-> p, quantity |-> qy,
    sku |-> st[1], taxable |-> st[2], properties |-> pr] :
     tn \in TitleInputs, p \in PriceInputs, qy \in QuantityInputs,
     st \in SkuInputs, pr \in PropertiesInputs}

PlainItem ==
  [title |-> Str(<<"R", "u", "g">>), name |-> Undef, price |-> Str(<<"2", "0">>), quantity |-> IntNum(2),
   sku |-> Undef, taxable |-> Undef, properties |-> NoProps]

AreaItem == [PlainItem EXCEPT !.properties = PropsList(<<eL10, eW8, eP1_5>>)]

BadItem == [PlainItem EXCEPT !.properties = ObjProps]

Items(its) == [t |-> "array", items |-> its]

NoList == [t |-> "undefined", items |-> <<>>]

FullAddress ==
  [t |-> "object", name |-> Str(<<"A", "c", "m", "e">>), email |-> Str(<<"a", "@", "x">>), phone |-> Str(<<"5", "5", "5">>),
   address1 |-> Str(<<"1", " ", "M", "a", "i", "n">>), address2 |-> Str(<<"A", "p", "t", " ", "2">>), city |-> Str(<<"R", "e", "n", "o">>),
   province |-> Str(<<"N", "V">>), state |-> Undef, zip |-> Str(<<"8", "9", "5", "0", "1">>),
   country |-> Str(<<"U", "S">>)]

EmptyAddress == [NoAddress EXCEPT !.t = "object"]

JaneDoe ==
  [t |-> "object", first_name |-> Str(<<"J", "a", "n", "e">>), last_name |-> Str(<<"D", "o", "e">>),
   email |-> Str(<<"j", "@", "x">>), default_address |-> NoAddress]

BaseOrder ==
  [id |-> IntNum(1001), order_number |-> Undef, name |-> Undef,
   email |-> Undef, customer_name |-> Undef, customer |-> JaneDoe,
   billing_address |-> NoAddress, shipping_address |-> NoAddress,
   line_items |-> Items(<<PlainItem>>), currency |-> Undef,
   shipping_lines |-> NoList, total_tax |-> Undef,
   total_discounts |-> Undef, note |-> Undef]

LineOrders ==
  {[BaseOrder EXCEPT !.line_items = Items(<<it>>)] : it \in LineItemInputs}

NameInputs ==
  {<<Str(<<"J", "a", "n", "e">>), Str(<<"D", "o", "e">>)>>, <<Str(<<"J", "a", "n", "e">>), Undef>>, <<Undef, Str(<<"D", "o", "e">>)>>,
   <<Str(<<>>), Str(<<"D", "o", "e">>)>>, <<Undef, Undef>>}

CustomerInputs ==
  {NoCustomer}
    \cup {[t |-> "object", first_name |-> fl[1], last_name |-> fl[2],
           email |-> e, default_address |-> da] :
            fl \in NameInputs, e \in {Undef, Str(<<"j", "@", "x">>)},
            da \in {NoAddress, FullAddress}}

BillingInputs ==
  {NoAddress, [NoAddress EXCEPT !.t = "null"], EmptyAddress, FullAddress,
   [FullAddress EXCEPT !.name = Undef],
   [EmptyAddress EXCEPT !.name = Str(<<"B", "o", "b">>)],
   [EmptyAddress EXCEPT !.address1 = Str(<<"9", " ", "E", "l", "m">>)],
   [EmptyAddress EXCEPT !.address1 = Str(<<"9", " ", "E", "l", "m">>), !.state = Str(<<"C", "A">>)],
   [FullAddress EXCEPT !.address1 = Str(<<>>)]}

ContactOrders ==
  {[BaseOrder EXCEPT !.customer = c, !.billing_address = b,
                     !.customer_name = cn, !.email = e] :
     c \in CustomerInputs, b \in BillingInputs,
     cn \in {Undef, Str(<<"Z", "e", "d">>)}, e \in {Undef, Str(<<"o", "@", "x">>)}}

MaxItems == 2

RECURSIVE SeqsUpTo(_, _)
SeqsUpTo(S, n) ==
  IF n = 0 THEN {<<>>}
  ELSE LET shorter == SeqsUpTo(S, n - 1)
       IN shorter \cup {Append(q, x) : q \in shorter, x \in S}

LineItemsInputs ==
  {NoList}
    \cup {Items(q) : q \in SeqsUpTo({PlainItem, AreaItem, BadItem}, MaxItems)}

Price(v) == [price |-> v]

ShippingInputs ==
  {NoList, Items(<<>>), Items(<<Price(IntNum(15))>>),
   Items(<<Price(Str(<<"1", "5">>)), Price(IntNum(99))>>),
   Items(<<Price(Str(<<"a", "b", "c">>))>>), Items(<<Price(IntNum(0))>>),
   Items(<<Price(Str(<<"-", "5">>))>>), Items(<<Price(Undef), Price(IntNum(7))>>)}

DiscountInputs == {Undef, IntNum(5), Str(<<"5">>), Str(<<"a", "b", "c">>), IntNum(0), Str(<<"-", "2">>)}

TaxInputs == {Undef, Str(<<"7", ".", "5">>), IntNum(3), Str(<<"a", "b", "c">>)}

TotalsOrders ==
  {[BaseOrder EXCEPT !.line_items = li, !.shipping_lines = sl,
                     !.total_discounts = d, !.total_tax = tx] :
     li \in LineItemsInputs, sl \in ShippingInputs, d \in DiscountInputs,
     tx \in TaxInputs}

NumberInputs == {Undef, IntNum(1042), Str(<<"1", "0", "4", "2">>), IntNum(0)}

IdInputs == {IntNum(1001), Str(<<"A", "7">>), Undef}

IdentityOrders ==
  {[BaseOrder EXCEPT !.order_number = n, !.name = nm, !.id = i] :
     n \in NumberInputs, nm \in {Undef, Str(<<"#", "7">>)}, i \in IdInputs}

Orders == LineOrders \cup ContactOrders \cup TotalsOrders \cup IdentityOrders

NoResult == [status |-> "none"]

----------------------------------------------------------------------------
(* The routes of src/routes/order-to-invoice.js.  A handler touches the    *)
(* shared record store in one synchronous segment, its last, and all it    *)
(* reads before that are the answers of tokens.json and of Xero; so one    *)
(* step is one whole request, the answers of Xero drawn with it.           *)

\* An error message: the template it is built from and, in order, the
\* values the template interpolates.
Msg(k, a) == [kind |-> k, args |-> a]

NoMsg == Msg("none", <<>>)

\* The message text names the value v: v is one of the interpolated values.
Names(msg, v) == \E k \in 1..Len(msg.args) : msg.args[k] = v

\* tokens.json: whether the file can be read and which fields it holds.
TokenFile(f, a, r, tn) ==
  [file |-> f, access_token |-> a, refresh_token |-> r, tenant_id |-> tn]

NoTokens == TokenFile(FALSE, FALSE, FALSE, FALSE)

FullTokens == TokenFile(TRUE, TRUE, TRUE, TRUE)

\* The configurations the server runs in: tokens.json and whether the three
\* XERO_ environment variables are set.
Configurations ==
  {<<FullTokens, TRUE>>, <<NoTokens, TRUE>>,
   <<TokenFile(TRUE, FALSE, TRUE, FALSE), FALSE>>}

\* loadTokensFromFile() returned an object
loadTokensFromFile == tokens.file

\* One call of an external operation and what it gave back.
Call(api, arg, res) == [api |-> api, arg |-> arg, result |-> res]

NoArg == [t |-> "none"]

TenantId == Str(<<"T", "1">>)

\* ensureXeroConnection(): throws when there is no access token to use and
\* when initialize, setTokenSet or updateTenants fail or list no
\* organisation; returns the first connection's tenant id otherwise.
ensureXeroConnection ==
  IF loadTokensFromFile /\ tokens.access_token
    THEN {[ok |-> TRUE, tenantId |-> TenantId], [ok |-> FALSE, tenantId |-> Undef]}
  ELSE {[ok |-> FALSE, tenantId |-> Undef]}

ConnectionCall(c) == Call("ensureXeroConnection", NoArg, c)

ConnectionFailed == Msg("Xero connection failed", <<>>)

BaseCurrencies == {Str(<<"N", "Z", "D">>)}

\* getOrganisations(tenantId): the organisation with its base currency, or
\* an error (of the request, or of reading organisations[0] of none).
getOrganisations ==
  {[ok |-> TRUE, baseCurrency |-> b] : b \in BaseCurrencies}
    \cup {[ok |-> FALSE, baseCurrency |-> Undef]}

OrganisationsCall(g) == Call("getOrganisations", NoArg, g)

\* What createInvoices gives back: an error of the request, a body with no
\* invoice, an invoice with validation errors (the currency one naming the
\* currency of the document, when it has one), or the created invoice, its
\* invoiceID one of ids.
Created(id) == [kind |-> "created", invoiceID |-> id, named |-> Undef]

Rejected(k, c) == [kind |-> k, invoiceID |-> Undef, named |-> c]

createInvoices(currency, ids) ==
  {Rejected("error", Undef), Rejected("empty", Undef),
   Rejected("validation", Undef),
   Rejected("not subscribed to currency", currency)}
    \cup {Created(id) : id \in ids}

\* The invoice ids Xero is taken to answer with: an invoice without id
\* only on the route that looks at the id.
InvoiceIds(needsId) ==
  IF needsId THEN {Str(<<"X", "1">>), Undef} ELSE {Str(<<"X", "1">>)}

InvoicesCall(doc, r) == Call("createInvoices", doc, r)

\* validationDetails.match(/currency (\w+)/): the currency the message
\* names, else the route's fallback.
rejectedCurrency(r, fallback) == IF r.named # Undef THEN r.named ELSE fallback

\* The error raised inside the try block: the message with the base
\* currency when getOrganisations answered, its own error otherwise.
triedCurrencyError(rejected, g) ==
  IF g.ok
    THEN Msg("Currency is not enabled, base currency is",
             <<rejected, g.baseCurrency, rejected, g.baseCurrency>>)
  ELSE Msg("getOrganisations failed", <<>>)

\* catch (orgErr) receives every error of the try block, the message thrown
\* on its last line included, and throws the message without the base
\* currency in its place.
currencyError(rejected, g) ==
  LET orgErr == triedCurrencyError(rejected, g)
  IN Msg("Currency is not enabled", <<rejected>>)

\* From createInvoices to the end of the try block: the calls made and the
\* error thrown (NoMsg when none is).  validationKind is the route's
\* wording of a validation failure and needsId says whether the route
\* checks the created invoice's invoiceID.
Submission(c, r, e) == [calls |-> c, created |-> r, error |-> e]

Submit(doc, currency, fallback, validationKind, needsId) ==
  UNION {
    LET sent == <<InvoicesCall(doc, r)>>
    IN IF r.kind = "error" THEN {Submission(sent, r, Msg("createInvoices failed", <<>>))}
       ELSE IF r.kind = "empty"
         THEN {Submission(sent, r, Msg("Xero API returned empty response", <<>>))}
       ELSE IF r.kind = "not subscribed to currency"
         THEN {Submission(sent \o <<OrganisationsCall(g)>>, r,
                          currencyError(rejectedCurrency(r, fallback), g)) :
                 g \in getOrganisations}
       ELSE IF r.kind = "validation"
         THEN {Submission(sent, r, Msg(validationKind, <<>>))}
       ELSE IF needsId /\ ~Truthy(r.invoiceID)
         THEN {Submission(sent, r, Msg("missing invoice ID", <<>>))}
       ELSE {Submission(sent, r, NoMsg)}
    : r \in createInvoices(currency, InvoiceIds(needsId))}

\* The in-memory store invoiceRecords: a Map, whose keys are equal when
\* they are the same value of the same type (1001 and "1001" are two keys).
EmptyMap == [k \in {} |-> NoMsg]

MapSet(m, k, v) == [x \in DOMAIN m \cup {k} |-> IF x = k THEN v ELSE m[x]]

MapHas(m, k) == k \in DOMAIN m

\* `error-${id}`
ErrorKey(id) == Str(<<"e", "r", "r", "o", "r", "-">> \o JSToString(id))

\* order_number || name on the Shopify route, order_number || id on the
\* custom one
orderNumber(route, o) ==
  Or(o.order_number, IF route = "shopify" THEN o.name ELSE o.id)

InvoiceRecord(route, o, created, doc) ==
  [orderId |-> o.id, orderNumber |-> orderNumber(route, o), error |-> NoMsg,
   xeroInvoiceId |-> created.invoiceID, customerName |-> doc.contact.name]

ErrorRecord(route, o, e) ==
  [orderId |-> o.id, orderNumber |-> orderNumber(route, o), error |-> e,
   xeroInvoiceId |-> Undef, customerName |-> Undef]

\* The response: HTTP status, the success flag, the error and details
\* texts, and the invoice or record sent back.
Response(st, ok, e, d, inv) ==
  [status |-> st, success |-> ok, error |-> e, details |-> d, invoice |-> inv]

NoInvoice == [t |-> "none"]

NoResponse == Response(0, FALSE, NoMsg, NoMsg, NoInvoice)

\* What one request leaves behind: the external calls it made, its
\* response, the record store and the clock.
Outcome(c, r, recs, t) == [calls |-> c, response |-> r, records |-> recs, now |-> t]

\* The server is watched until the clock reaches the midnight that follows
\* StartTick.
MaxTick == 2 * TicksPerDay

\* The advances of the clock between the three reads of the builder.
ClockReads ==
  {ab \in (0..MaxClockStep) \X (0..MaxClockStep) : now + ab[1] + ab[2] <= MaxTick}

\* The catch block of an order route: the error record under
\* `error-${id}` and the 500 response carrying the message.
OrderFailure_underOrderId(route, o, c, e, t) ==
  Outcome(c, Response(500, FALSE, e, NoMsg, NoInvoice),
          MapSet(invoiceRecords, o.id, ErrorRecord(route, o, e)), t)

OrderFailure(route, o, c, e, t) ==
  Outcome(c, Response(500, FALSE, e, NoMsg, NoInvoice),
          MapSet(invoiceRecords, ErrorKey(o.id), ErrorRecord(route, o, e)), t)

\* The success path's end: the record under the order's id and the 200.
OrderSuccess(route, o, c, created, doc, t) ==
  Outcome(c, Response(200, TRUE, NoMsg, NoMsg, created),
          MapSet(invoiceRecords, o.id, InvoiceRecord(route, o, created, doc)), t)

\* Both order routes once the builder has run: createInvoices, then the
\* record and the response.  sofar is the calls made so far, built what the
\* builder gave and t the clock after it.
SubmitBuilt(route, o, sofar, built, t) ==
  IF built.status = "throw"
    THEN {OrderFailure(route, o, sofar, Msg("TypeError", <<>>), now)}
  ELSE {IF s.error = NoMsg
          THEN OrderSuccess(route, o, sofar \o s.calls, s.created, built.doc, t)
        ELSE OrderFailure(route, o, sofar \o s.calls, s.error, t) :
          s \in Submit(built.doc, built.doc.currencyCode, o.currency,
                       "Xero validation errors", FALSE)}

\* Both order routes from the token check on: tokens.json, the connection,
\* the builder, createInvoices, the record.  pre is the calls made so far.
CreateInvoice(route, o, pre) ==
  IF ~loadTokensFromFile
    THEN {OrderFailure(route, o, pre, Msg("No tokens found in tokens.json", <<>>), now)}
  ELSE UNION {
    IF ~c.ok
      THEN {OrderFailure(route, o, pre \o <<ConnectionCall(c)>>, ConnectionFailed, now)}
    ELSE UNION {
      SubmitBuilt(route, o, pre \o <<ConnectionCall(c)>>,
                  transformOrderToInvoice(o, now, now + ab[1], now + ab[1] + ab[2]),
                  now + ab[1] + ab[2])
      : ab \in ClockReads}
    : c \in ensureXeroConnection}

\* POST /shopify/order
ShopifyOrder(o) == CreateInvoice("shopify", o, <<>>)

\* verifySystemReadiness(): the issues found
verifySystemReadiness ==
  (IF envSet THEN {} ELSE {"Missing environment variable"})
    \cup (IF ~loadTokensFromFile THEN {"No tokens.json file found"}
          ELSE (IF tokens.access_token THEN {} ELSE {"No access_token"})
                 \cup (IF tokens.refresh_token THEN {} ELSE {"No refresh_token"})
                 \cup (IF tokens.tenant_id THEN {} ELSE {"No tenant_id"}))

USD == Str(<<"U", "S", "D">>)

\* The order with `custom-${Date.now()}` for its id when it has none.
withId(o) ==
  IF Truthy(o.id) THEN o
  ELSE [o EXCEPT !.id = Str(<<"c", "u", "s", "t", "o", "m", "-">> \o NatDigits(now))]

\* The order with its currency resolved, and the calls that took: the
\* organisation's base currency, or USD when the connection or the
\* organisation query fails.
Resolved(c, o) == [calls |-> c, order |-> o]

\* The default taken as USD whatever the organisation answers.
withCurrency_alwaysUSD(o) ==
  IF Truthy(o.currency) THEN {Resolved(<<>>, o)}
  ELSE UNION {
    IF ~c.ok THEN {Resolved(<<ConnectionCall(c)>>, [o EXCEPT !.currency = USD])}
    ELSE {Resolved(<<ConnectionCall(c), OrganisationsCall(g)>>,
                   [o EXCEPT !.currency = USD]) :
            g \in getOrganisations}
    : c \in ensureXeroConnection}

withCurrency(o) ==
  IF Truthy(o.currency) THEN {Resolved(<<>>, o)}
  ELSE UNION {
    IF ~c.ok THEN {Resolved(<<ConnectionCall(c)>>, [o EXCEPT !.currency = USD])}
    ELSE {Resolved(<<ConnectionCall(c), OrganisationsCall(g)>>,
                   [o EXCEPT !.currency = IF g.ok THEN g.baseCurrency ELSE USD]) :
            g \in getOrganisations}
    : c \in ensureXeroConnection}

\* !orderData.customer || !orderData.line_items || length === 0
MissingRequired(o) ==
  \/ ~ObjTruthy(o.customer)
  \/ ~ObjTruthy(o.line_items)
  \/ o.line_items.t = "array" /\ Len(o.line_items.items) = 0

\* POST /custom/order
CustomOrder(o) ==
  IF verifySystemReadiness # {}
    THEN {OrderFailure("custom", o, <<>>, Msg("System not ready", <<>>), now)}
  ELSE IF MissingRequired(o)
    THEN {Outcome(<<>>, Response(400, FALSE, Msg("Missing required fields", <<>>),
                                 NoMsg, NoInvoice), invoiceRecords, now)}
  ELSE UNION {CreateInvoice("custom", r.order, r.calls) : r \in withCurrency(withId(o))}

\* A quote request body: quoteId, customer and items, each possibly absent.
Quote(id, c, its) == [quoteId |-> id, customer |-> c, items |-> its]

QuoteCustomer(n, e, p) == [t |-> "object", name |-> n, email |-> e, phone |-> p]

NoQuoteCustomer == [t |-> "undefined", name |-> Undef, email |-> Undef, phone |-> Undef]

QuoteItem(d, q, u) == [description |-> d, quantity |-> q, unitAmount |-> u]

\* customer?.name
customerName(q) == IF ObjTruthy(q.customer) THEN q.customer.name ELSE Undef

\* The line booked to account 400.
quoteLine_account400(item) ==
  [Description |-> item.description, Quantity |-> item.quantity,
   UnitAmount |-> item.unitAmount, AccountCode |-> Str(<<"4", "0", "0">>)]

\* One line of the payload: description, quantity and unit amount as the
\* quote gives them, account code 200.
quoteLine(item) ==
  [Description |-> item.description, Quantity |-> item.quantity,
   UnitAmount |-> item.unitAmount, AccountCode |-> Str(<<"2", "0", "0">>)]

\* The draft invoice payload, the clock reading t1 and t2 at its two reads.
invoicePayload(q, t1, t2) ==
  [Type |-> Str(<<"A", "C", "C", "R", "E", "C">>),
   Contact |-> [Name |-> q.customer.name,
                EmailAddress |-> IF Truthy(q.customer.email) THEN q.customer.email ELSE Undef,
                Phone |-> IF Truthy(q.customer.phone) THEN q.customer.phone ELSE Undef],
   LineItems |-> [i \in 1..Len(q.items.items) |-> quoteLine(q.items.items[i])],
   Status |-> Str(<<"D", "R", "A", "F", "T">>),
   LineAmountTypes |-> Str(<<"E", "x", "c", "l", "u", "s", "i", "v", "e">>),
   Reference |-> Str(<<"Q", "u", "o", "t", "e", ":", " ">> \o JSToString(q.quoteId)),
   Date |-> isoDate(t1),
   DueDate |-> isoDate(t2 + DueDays * TicksPerDay)]

\* The 400 of a validation and the 500 of the catch block; the route
\* keeps no record.
QuoteInvalid(e) ==
  Outcome(<<>>, Response(400, FALSE, e, NoMsg, NoInvoice), invoiceRecords, now)

QuoteFailure(c, e, t) ==
  Outcome(c, Response(500, FALSE, Msg("Internal server error", <<>>), e, NoInvoice),
          invoiceRecords, t)

\* The validation with the check of the items left out.
quoteValidation_idAndNameOnly(q) ==
  IF ~Truthy(q.quoteId) \/ ~Truthy(customerName(q))
    THEN Msg("Customer name and quote ID are required", <<>>)
  ELSE NoMsg

\* The two validations of the request body: the error of the first that
\* fails, NoMsg when both pass.
quoteValidation(q) ==
  IF ~Truthy(q.quoteId) \/ ~Truthy(customerName(q))
    THEN Msg("Customer name and quote ID are required", <<>>)
  ELSE IF ~ObjTruthy(q.items) \/ Len(q.items.items) = 0
    THEN Msg("Items list cannot be empty", <<>>)
  ELSE NoMsg

\* POST /send-quote-to-xero
SendQuoteToXero(q) ==
  IF quoteValidation(q) # NoMsg THEN {QuoteInvalid(quoteValidation(q))}
  ELSE UNION {
    IF ~c.ok THEN {QuoteFailure(<<ConnectionCall(c)>>, ConnectionFailed, now)}
    ELSE UNION {
      LET t == now + a
          payload == invoicePayload(q, now, t)
      IN {IF s.error = NoMsg
            THEN Outcome(<<ConnectionCall(c)>> \o s.calls,
                         Response(200, TRUE, NoMsg, NoMsg, s.created), invoiceRecords, t)
          ELSE QuoteFailure(<<ConnectionCall(c)>> \o s.calls, s.error, t) :
            s \in Submit(payload, Undef, USD, "Xero validation failed", TRUE)}
      : a \in {x \in 0..MaxClockStep : now + x <= MaxTick}}
    : c \in ensureXeroConnection}

\* GET /invoice/:orderId, the path parameter being a text
GetInvoiceRecord(p) ==
  IF MapHas(invoiceRecords, Str(p))
    THEN {Outcome(<<>>, Response(200, TRUE, NoMsg, NoMsg, invoiceRecords[Str(p)]),
                  invoiceRecords, now)}
  ELSE {Outcome(<<>>, Response(404, FALSE, Msg("Invoice record not found", <<>>),
                               NoMsg, NoInvoice), invoiceRecords, now)}

\* records.filter(r => !r.error) and records.filter(r => r.error)
listedInvoices == {k \in DOMAIN invoiceRecords : invoiceRecords[k].error = NoMsg}

listedErrors == {k \in DOMAIN invoiceRecords : invoiceRecords[k].error # NoMsg}

\* GET /invoices: the records in two lists, by their error field.
GetInvoiceRecords ==
  {Outcome(<<>>,
           Response(200, TRUE, NoMsg, NoMsg,
                    [invoices |-> {invoiceRecords[k] : k \in listedInvoices},
                     errors |-> {invoiceRecords[k] : k \in listedErrors},
                     total |-> Cardinality(DOMAIN invoiceRecords)]),
           invoiceRecords, now)}

\* key.startsWith('error-'), for a key that is a string
startsWithError(key) ==
  Len(key.s) >= 6 /\ SubSeq(key.s, 1, 6) = <<"e", "r", "r", "o", "r", "-">>

\* GET /debug/status: the connection is tried and its failure kept as a
\* text; the keys of the records are then searched for the prefix
\* "error-", which is a TypeError on a key that is not a string.
DebugStatus ==
  {IF \E k \in DOMAIN invoiceRecords : k.t # "string"
     THEN Outcome(<<ConnectionCall(c)>>,
                  Response(500, FALSE, Msg("TypeError", <<>>), NoMsg, NoInvoice),
                  invoiceRecords, now)
   ELSE Outcome(<<ConnectionCall(c)>>,
                Response(200, TRUE, NoMsg, NoMsg,
                         [total |-> Cardinality(DOMAIN invoiceRecords),
                          errors |-> Cardinality({k \in DOMAIN invoiceRecords :
                                                    startsWithError(k)})]),
                invoiceRecords, now) :
     c \in ensureXeroConnection}

----------------------------------------------------------------------------
(* Requests                                                                *)

EUR == Str(<<"E", "U", "R">>)

A7 == Str(<<"A", "7">>)

RouteOrders ==
  {BaseOrder,
   [BaseOrder EXCEPT !.id = A7, !.currency = EUR, !.name = Str(<<"#", "7">>),
                     !.line_items = Items(<<AreaItem, PlainItem, AreaItem>>)],
   [BaseOrder EXCEPT !.customer = NoCustomer],
   [BaseOrder EXCEPT !.line_items = Items(<<>>)],
   [BaseOrder EXCEPT !.line_items = NoList],
   [BaseOrder EXCEPT !.line_items = Items(<<BadItem>>)]}

Ann == QuoteCustomer(Str(<<"A", "n", "n">>), Str(<<"a", "@", "x">>), Undef)

Q7 == Str(<<"Q", "7">>)

Desk == QuoteItem(Str(<<"D", "e", "s", "k">>), IntNum(1), Num(199, 2))

Lamp == QuoteItem(Str(<<"L", "a", "m", "p">>), Str(<<"2">>), Str(<<"1", "5">>))

Quotes ==
  {Quote(Q7, Ann, Items(<<Desk, Lamp>>)),
   Quote(IntNum(42), Ann, Items(<<Lamp, Desk>>)),
   Quote(Undef, Ann, Items(<<Desk>>)),
   Quote(Q7, NoQuoteCustomer, Items(<<Desk>>)),
   Quote(Q7, [Ann EXCEPT !.name = Undef], Items(<<Desk>>)),
   Quote(Q7, Ann, NoList),
   Quote(Q7, Ann, Items(<<>>))}

OrderIdParams == {<<"1", "0", "0", "1">>, <<"A", "7">>, <<"B", "9">>}

NoRequest == [route |-> "none", body |-> NoArg]

MaxRequests == 2

----------------------------------------------------------------------------
(* OAuth routes (src/routes/oauth.js).  Time is in milliseconds.  A GET     *)
(* /auth request runs to its await of buildConsentUrl in one step and to    *)
(* its response in a second one, so that other requests and timers come    *)
(* in between, as they do on the event loop.                                *)

AUTH_COOLDOWN == 5000

\* setTimeout(() => { isAuthInProgress = false; }, 10000)
FlagResetDelay == 10000

\* The clock is read at whole cooldowns.
ClockStep == AUTH_COOLDOWN

MaxAuthRequests == 3

\* Date.now() when the server starts: further from the epoch than any delay.
ServerStart == AUTH_COOLDOWN + FlagResetDelay

\* Requests arrive until one reset delay after the start; the clock runs on
\* while a timer is set.
LastRequestTime == ServerStart + FlagResetDelay

\* One accepted GET /auth: when it was accepted, how far it got, whether the
\* callback of its consent was handled, and which consents issued before it
\* were still waiting for their callback when it was accepted.
Flow(at, state, handled, open) ==
  [at |-> at, state |-> state, handled |-> handled, open |-> open]

OpenConsents ==
  {i \in DOMAIN flows : flows[i].state = "redirected" /\ ~flows[i].handled}

\* The token set of the k-th code exchange, and what is written to tokens.json.
TokenSet(k) ==
  [access_token |-> <<"access", k>>, refresh_token |-> <<"refresh", k>>,
   id_token |-> <<"id", k>>, expires_at |-> <<"expires", k>>]

\* No token set: nothing exchanged, nothing saved.
NoTokenSet == TokenSet(0)

TokenData(tokenSet, tenant) == [tokenSet |-> tokenSet, tenant_id |-> tenant]

NoFile == [tokenSet |-> NoTokenSet, tenant_id |-> Undef]

\* Directories the server process may be started in: the repository, where
\* package.json is, and src, where index.js is.
Dirs == {"repo", "repo/src"}

\* path.join(__dirname, '..', 'tokens.json') in src/xero/client.js
tokensFilePath == "repo/src"

\* The callback handled last: the flow it ended, the token set exchanged,
\* the tenant fetched, and whether initializeWithTokens succeeded.
CallbackRun(flow, tokenSet, tenant, initialized) ==
  [flow |-> flow, tokenSet |-> tokenSet, tenant |-> tenant,
   initialized |-> initialized]

NoCallback == CallbackRun(0, NoTokenSet, Undef, FALSE)

authVars ==
  <<isAuthInProgress, lastAuthTime, clock, timers, flows, cwd, files,
    globalTenantId, webhookTenantId, callback>>

\* The modules loaded and no request yet, the process started in dir.
Loaded(dir) ==
  /\ isAuthInProgress = FALSE
  /\ lastAuthTime = 0
  /\ clock = ServerStart
  /\ timers = {}
  /\ flows = <<>>
  /\ cwd = dir
  /\ files = [d \in Dirs |-> NoFile]
  /\ globalTenantId = Undef
  /\ webhookTenantId = Undef
  /\ callback = NoCallback

----------------------------------------------------------------------------
(* The patched validateJWT of the openid-client Client                     *)
(* (src/force-timing-patch.js).  A call runs to its await of the original  *)
(* method in one step and from there to its return or throw in a second.   *)

MaxValidations == 2

\* clockTolerance of a client before any call: not set, or a number.
Tolerances == {Undef, IntNum(15), IntNum(60)}

\* The jwt argument: three parts with a JSON payload, three parts with a
\* payload that does not parse, or another number of parts.
Jwts == {"payload", "garbled", "two parts"}

\* One call of the patched method: where it is, its jwt, and its
\* originalClockTolerance.
Validation(pc, jwt, original) == [pc |-> pc, jwt |-> jwt, original |-> original]

NotCalled == Validation("not called", "payload", Undef)

jwtVars == <<clockTolerance, validations, configured>>

ClientCreated ==
  /\ clockTolerance \in Tolerances
  /\ configured = clockTolerance
  /\ validations = [c \in 1..MaxValidations |-> NotCalled]

\* A client that no call ever touches.
ClientUnused ==
  /\ clockTolerance = Undef
  /\ configured = Undef
  /\ validations = [c \in 1..MaxValidations |-> NotCalled]


----------------------------------------------------------------------------
(* The server: requests arrive one after another and each is handled to    *)
(* its response.                                                           *)

InitRoutes ==
  /\ order = BaseOrder
  /\ result = NoResult
  /\ now = StartTick
  /\ \E cfg \in Configurations : tokens = cfg[1] /\ envSet = cfg[2]
  /\ invoiceRecords = EmptyMap
  /\ request = NoRequest
  /\ calls = <<>>
  /\ response = NoResponse
  /\ served = 0
  /\ Loaded("repo")
  /\ ClientUnused

Handle(route, body, outcomes) ==
  /\ served < MaxRequests
  /\ \E out \in outcomes :
       /\ request' = [route |-> route, body |-> body]
       /\ calls' = out.calls
       /\ response' = out.response
       /\ invoiceRecords' = out.records
       /\ now' = out.now
  /\ served' = served + 1
  /\ UNCHANGED <<order, result, tokens, envSet>>
  /\ UNCHANGED authVars
  /\ UNCHANGED jwtVars

PostShopifyOrder == \E o \in RouteOrders : Handle("shopify", o, ShopifyOrder(o))

PostCustomOrder == \E o \in RouteOrders : Handle("custom", o, CustomOrder(o))

PostSendQuoteToXero == \E q \in Quotes : Handle("quote", q, SendQuoteToXero(q))

GetInvoice == \E p \in OrderIdParams : Handle("invoice", Str(p), GetInvoiceRecord(p))

GetInvoices == Handle("invoices", Null, GetInvoiceRecords)

GetDebugStatus == Handle("debug/status", Null, DebugStatus)

NextRoutes ==
  \/ PostShopifyOrder
  \/ PostCustomOrder
  \/ PostSendQuoteToXero
  \/ GetInvoice
  \/ GetInvoices
  \/ GetDebugStatus

SpecRoutes == InitRoutes /\ [][NextRoutes]_vars

----------------------------------------------------------------------------
(* The state machine: a request carries an order, and the route handler    *)
(* calls transformOrderToInvoice on it (synchronously, so in one step).    *)

Init ==
  /\ order \in Orders
  /\ result = NoResult
  /\ now = StartTick
  /\ tokens = NoTokens
  /\ envSet = FALSE
  /\ invoiceRecords = EmptyMap
  /\ request = NoRequest
  /\ calls = <<>>
  /\ response = NoResponse
  /\ served = 0
  /\ Loaded("repo")
  /\ ClientUnused

Transform ==
  /\ result.status = "none"
  /\ \E a \in 0..MaxClockStep, b \in 0..MaxClockStep :
       /\ result' = transformOrderToInvoice(order, now, now + a, now + a + b)
       /\ now' = now + a + b
  /\ UNCHANGED <<order, tokens, envSet, invoiceRecords, request, calls, response, served>>
  /\ UNCHANGED authVars
  /\ UNCHANGED jwtVars

Next == Transform

Spec == Init /\ [][Next]_vars

----------------------------------------------------------------------------
(* The OAuth router, the callback and the legacy webhook as one server.    *)

orderVars ==
  <<order, result, now, tokens, envSet, invoiceRecords, request, response>>

tokenVars == <<cwd, files, globalTenantId, webhookTenantId, callback>>

\* The check of GET /auth without its cooldown test.
Accepts_noCooldown(t) == ~isAuthInProgress

\* GET /auth goes on to the consent URL: no authorization in progress and
\* the last accepted request at least AUTH_COOLDOWN ago.
Accepts(t) == ~isAuthInProgress /\ ~(t - lastAuthTime < AUTH_COOLDOWN)

\* GET /auth, to its early return or to `await xero.buildConsentUrl()`.
GetAuth ==
  /\ served < MaxAuthRequests
  /\ clock <= LastRequestTime
  /\ served' = served + 1
  /\ IF Accepts(clock)
       THEN /\ isAuthInProgress' = TRUE
            /\ lastAuthTime' = clock
            /\ flows' = Append(flows, Flow(clock, "awaiting", FALSE, OpenConsents))
     ELSE UNCHANGED <<isAuthInProgress, lastAuthTime, flows>>
  /\ UNCHANGED <<clock, timers, calls>>
  /\ UNCHANGED tokenVars
  /\ UNCHANGED orderVars
  /\ UNCHANGED jwtVars

\* buildConsentUrl resolved: the redirect, and the timer that resets the flag.
ConsentRedirect ==
  \E i \in DOMAIN flows :
    /\ flows[i].state = "awaiting"
    /\ flows' = [flows EXCEPT ![i].state = "redirected"]
    /\ timers' = timers \cup {clock + FlagResetDelay}
    /\ UNCHANGED <<isAuthInProgress, lastAuthTime, clock, calls, served>>
    /\ UNCHANGED tokenVars
    /\ UNCHANGED orderVars
    /\ UNCHANGED jwtVars

\* buildConsentUrl rejected: the catch block of GET /auth.
ConsentFailure ==
  \E i \in DOMAIN flows :
    /\ flows[i].state = "awaiting"
    /\ flows' = [flows EXCEPT ![i].state = "failed"]
    /\ isAuthInProgress' = FALSE
    /\ UNCHANGED <<lastAuthTime, clock, timers, calls, served>>
    /\ UNCHANGED tokenVars
    /\ UNCHANGED orderVars
    /\ UNCHANGED jwtVars

\* The timer callback that leaves the flag as it is.
FlagReset_keepsFlag ==
  \E d \in timers :
    /\ clock >= d
    /\ timers' = timers \ {d}
    /\ UNCHANGED <<isAuthInProgress, lastAuthTime, clock, flows, calls, served>>
    /\ UNCHANGED tokenVars
    /\ UNCHANGED orderVars
    /\ UNCHANGED jwtVars

\* The timer callback of GET /auth, once its delay has passed.
FlagReset ==
  \E d \in timers :
    /\ clock >= d
    /\ timers' = timers \ {d}
    /\ isAuthInProgress' = FALSE
    /\ UNCHANGED <<lastAuthTime, clock, flows, calls, served>>
    /\ UNCHANGED tokenVars
    /\ UNCHANGED orderVars
    /\ UNCHANGED jwtVars

\* Time passes; a timer that is due runs before it passes further.
Tick ==
  /\ \A d \in timers : clock < d
  /\ clock < LastRequestTime \/ timers # {}
  /\ clock' = clock + ClockStep
  /\ UNCHANGED <<isAuthInProgress, lastAuthTime, timers, flows, calls, served>>
  /\ UNCHANGED tokenVars
  /\ UNCHANGED orderVars
  /\ UNCHANGED jwtVars

\* fs.writeFileSync('tokens.json', ...): a path relative to the working
\* directory of the process.
writeTokens(fs, data) == [fs EXCEPT ![cwd] = data]

\* loadTokensFromFile() of src/xero/client.js on a file system: the saved
\* data of src/tokens.json, or null.
loadedTokens(fs) == IF fs[tokensFilePath] = NoFile THEN Null ELSE fs[tokensFilePath]

\* What the callback of consent i leaves, by what its awaited calls did:
\* the code exchange, updateTenants and initializeWithTokens.
CallbackOutcomes(i) ==
  {[files |-> files,
    tenantId |-> globalTenantId, calls |-> <<>>,
    callback |-> CallbackRun(i, NoTokenSet, Undef, FALSE)],
   [files |-> writeTokens(files, TokenData(TokenSet(i), Null)),
    tenantId |-> globalTenantId, calls |-> <<>>,
    callback |-> CallbackRun(i, TokenSet(i), Undef, FALSE)],
   [files |-> writeTokens(writeTokens(files, TokenData(TokenSet(i), TenantId)),
                          TokenData(TokenSet(i), Null)),
    tenantId |-> globalTenantId,
    calls |-> <<ConnectionCall([ok |-> FALSE, tenantId |-> Undef])>>,
    callback |-> CallbackRun(i, TokenSet(i), TenantId, FALSE)],
   [files |-> writeTokens(files, TokenData(TokenSet(i), TenantId)),
    tenantId |-> TenantId,
    calls |-> <<ConnectionCall([ok |-> TRUE, tenantId |-> TenantId])>>,
    callback |-> CallbackRun(i, TokenSet(i), TenantId, TRUE)]}

\* callbackHandler, for the callback Xero redirects to after consent i.
Callback ==
  \E i \in OpenConsents :
    \E out \in CallbackOutcomes(i) :
      /\ flows' = [flows EXCEPT ![i].handled = TRUE]
      /\ isAuthInProgress' = FALSE
      /\ files' = out.files
      /\ globalTenantId' = out.tenantId
      /\ calls' = out.calls
      /\ callback' = out.callback
      /\ UNCHANGED <<lastAuthTime, clock, timers, served, cwd, webhookTenantId>>
      /\ UNCHANGED orderVars
      /\ UNCHANGED jwtVars

\* Order payloads posted to the legacy webhook: with an area-priced first
\* item, with an item that has no properties, and without a customer.
WebhookOrders ==
  {[BaseOrder EXCEPT !.line_items = Items(<<AreaItem>>)],
   BaseOrder,
   [BaseOrder EXCEPT !.line_items = Items(<<AreaItem>>), !.customer = NoCustomer]}

\* The TypeErrors of the legacy handler: line_items[0] of no list,
\* properties of no item, map of no array, first_name of no customer.
webhookThrows(o) ==
  \/ o.line_items.t # "array"
  \/ o.line_items.items = <<>>
  \/ o.line_items.items[1].properties.t # "array"
  \/ o.customer.t # "object"

\* The invoice the legacy handler builds from the first line item.
webhookInvoice(o) ==
  LET item == o.line_items.items[1]
      e == item.properties.entries
      price == Mul(Mul(parseFloat(PropGet(e, kLength)), parseFloat(PropGet(e, kWidth))),
                   parseFloat(Or(PropGet(e, kPricePerSqFt), Num(3, 2))))
  IN [type |-> Str(<<"A", "C", "C", "R", "E", "C">>),
      contact |-> [emailAddress |-> o.email,
                   name |-> Str(JSToString(o.customer.first_name) \o <<" ">>
                                \o JSToString(o.customer.last_name))],
      lineItems |-> <<[description |->
                         Str(JSToString(item.title) \o <<" ", "-", " ">>
                             \o JSToString(PropGet(e, kLength)) \o <<"f", "t", " ", "x", " ">>
                             \o JSToString(PropGet(e, kWidth)) \o <<"f", "t">>),
                       quantity |-> IntNum(1),
                       unitAmount |-> Str(toFixed2(price))]>>,
      status |-> Str(<<"A", "U", "T", "H", "O", "R", "I", "S", "E", "D">>)]

\* xero.accountingApi.createInvoices(tenantId, { invoices: [invoice] }),
\* resolved or rejected
TenantCall(tenant, doc, resolved) ==
  Call("createInvoices", [tenantId |-> tenant, invoice |-> doc],
       [ok |-> resolved, tenantId |-> Undef])

\* POST /webhook/shopify/order: the tenant id is the one the module read
\* from the client module when it was loaded.
PostWebhookOrder ==
  \E o \in WebhookOrders :
    /\ served < MaxAuthRequests
    /\ clock <= LastRequestTime
    /\ served' = served + 1
    /\ IF webhookThrows(o)
         THEN calls' = <<>>
       ELSE \E resolved \in BOOLEAN :
              calls' = <<TenantCall(webhookTenantId, webhookInvoice(o), resolved)>>
    /\ UNCHANGED <<isAuthInProgress, lastAuthTime, clock, timers, flows>>
    /\ UNCHANGED tokenVars
    /\ UNCHANGED orderVars
    /\ UNCHANGED jwtVars

InitAuth ==
  /\ order = BaseOrder
  /\ result = NoResult
  /\ now = StartTick
  /\ tokens = NoTokens
  /\ envSet = TRUE
  /\ invoiceRecords = EmptyMap
  /\ request = NoRequest
  /\ calls = <<>>
  /\ response = NoResponse
  /\ served = 0
  /\ \E dir \in Dirs : Loaded(dir)
  /\ ClientUnused

NextAuth ==
  \/ GetAuth
  \/ ConsentRedirect
  \/ ConsentFailure
  \/ FlagReset
  \/ Tick
  \/ Callback
  \/ PostWebhookOrder

SpecAuth == InitAuth /\ [][NextAuth]_vars

\* The event loop runs what is ready: an awaited call settles, a due timer
\* fires, and time passes.
SpecAuthFair ==
  /\ SpecAuth
  /\ WF_vars(ConsentRedirect \/ ConsentFailure)
  /\ WF_vars(FlagReset)
  /\ WF_vars(Tick)

----------------------------------------------------------------------------
(* Calls of the patched validateJWT on one client.                         *)

\* const originalClockTolerance = this.clockTolerance;
\* this.clockTolerance = 60; await originalValidateJWT.call(...)
ValidateJWT ==
  \E c \in 1..MaxValidations, jwt \in Jwts :
    /\ validations[c].pc = "not called"
    /\ validations' = [validations EXCEPT ![c] = Validation("awaiting", jwt, clockTolerance)]
    /\ clockTolerance' = IntNum(60)
    /\ UNCHANGED <<configured, calls, served>>
    /\ UNCHANGED orderVars
    /\ UNCHANGED authVars

\* The original method resolved: the tolerance is put back and the result
\* returned.
ValidationReturns ==
  \E c \in 1..MaxValidations :
    /\ validations[c].pc = "awaiting"
    /\ clockTolerance' = validations[c].original
    /\ validations' = [validations EXCEPT ![c].pc = "returned"]
    /\ UNCHANGED <<configured, calls, served>>
    /\ UNCHANGED orderVars
    /\ UNCHANGED authVars

\* The original method rejected with the RPError "JWT not active yet": the
\* payload of a three-part jwt is returned, or the error thrown again when
\* the payload does not parse; another jwt goes on to the rethrow below.
ValidationBypassed ==
  \E c \in 1..MaxValidations :
    /\ validations[c].pc = "awaiting"
    /\ validations[c].jwt # "two parts"
    /\ validations' = [validations EXCEPT ![c].pc =
                         IF validations[c].jwt = "payload" THEN "bypassed"
                         ELSE "rethrown"]
    /\ UNCHANGED <<clockTolerance, configured, calls, served>>
    /\ UNCHANGED orderVars
    /\ UNCHANGED authVars

\* if (this.clockTolerance === 60) { this.clockTolerance = 15; }
Rethrow == IF clockTolerance = IntNum(60) THEN IntNum(15) ELSE clockTolerance

\* The original method rejected with another error, or with "JWT not active
\* yet" on a jwt that has not three parts.
ValidationRethrows ==
  \E c \in 1..MaxValidations, notActive \in BOOLEAN :
    /\ validations[c].pc = "awaiting"
    /\ notActive => validations[c].jwt = "two parts"
    /\ clockTolerance' = Rethrow
    /\ validations' = [validations EXCEPT ![c].pc = "rethrown"]
    /\ UNCHANGED <<configured, calls, served>>
    /\ UNCHANGED orderVars
    /\ UNCHANGED authVars

InitJWT ==
  /\ order = BaseOrder
  /\ result = NoResult
  /\ now = StartTick
  /\ tokens = NoTokens
  /\ envSet = TRUE
  /\ invoiceRecords = EmptyMap
  /\ request = NoRequest
  /\ calls = <<>>
  /\ response = NoResponse
  /\ served = 0
  /\ Loaded("repo")
  /\ ClientCreated

NextJWT ==
  \/ ValidateJWT
  \/ ValidationReturns
  \/ ValidationBypassed
  \/ ValidationRethrows

SpecJWT == InitJWT /\ [][NextJWT]_vars

----------------------------------------------------------------------------
(* Vocabulary of the properties below, stated on the raw input and on the  *)
(* returned document.                                                      *)

Returned == result.status = "ok"

\* The raw line items of the order, as the input holds them.
RawLineItems == IF order.line_items.t = "array" THEN order.line_items.items ELSE <<>>

\* The produced line of the i-th raw line item.
LineOf(i) == result.doc.lineItems[i]

\* The properties list of the item has an entry named key.
HasKey(item, key) ==
  /\ item.properties.t = "array"
  /\ \E k \in 1..Len(item.properties.entries) :
       item.properties.entries[k].name = Str(key)

HasAllAreaKeys(item) ==
  HasKey(item, kLength) /\ HasKey(item, kWidth) /\ HasKey(item, kPricePerSqFt)

\* The value is absent or a text that starts no numeral.
NotNumeric(v) ==
  \/ v.t \in {"undefined", "null"}
  \/ /\ v.t = "string"
     /\ \/ v.s = <<>>
        \/ ~IsDigit(v.s[1]) /\ v.s[1] \notin {"-", "+", ".", " ", "I"}

\* An optional minus sign, one or more digits, a point, two digits.
IsDecimal2(v) ==
  /\ v.t = "string"
  /\ LET s == IF v.s # <<>> /\ v.s[1] = "-" THEN Tail(v.s) ELSE v.s
     IN /\ Len(s) >= 4
        /\ s[Len(s) - 2] = "."
        /\ \A k \in 1..Len(s) : k # Len(s) - 2 => IsDigit(s[k])

\* The order has the shape of a RawOrder: line_items absent or a list, and
\* each item's properties absent or a list.
WellShaped ==
  /\ order.line_items.t \in {"undefined", "null", "array"}
  /\ \A i \in 1..Len(RawLineItems) :
       RawLineItems[i].properties.t \in {"undefined", "null", "array"}

Called == result.status # "none"

----------------------------------------------------------------------------
(* Claims                                                                  *)

\* C1: transformOrderToInvoice returns an invoice document and raises no
\* exception, for every order object (absent customer, absent line_items,
\* absent or non-list properties, non-numeric price or quantity included).
C1_NeverThrows == Called => Returned

\* C2: every invoice line produced from a raw line item has a quantity that
\* is an integer greater than or equal to 1, whatever the input quantity.
C2_QuantityAtLeastOne ==
  Returned =>
    \A i \in 1..Len(RawLineItems) :
      LineOf(i).quantity.t = "number" /\ LineOf(i).quantity.d = 1
        /\ LineOf(i).quantity.n >= 1

\* C3: every invoice line of the document (base, area-priced, shipping or
\* discount) has a unitAmount that is a decimal number string with exactly
\* two decimal places.
C3_UnitAmountTwoDecimals ==
  Returned =>
    \A i \in 1..Len(result.doc.lineItems) :
      IsDecimal2(result.doc.lineItems[i].unitAmount)

C5_AreaOverrideOnKeys ==
  Returned =>
    \A i \in 1..Len(RawLineItems) :
      LET it == RawLineItems[i]
          e == it.properties.entries
          v(key) == parseFloat(PropGet(e, key))
      IN HasAllAreaKeys(it)
           => /\ LineOf(i).quantity = IntNum(1)
              /\ LineOf(i).unitAmount
                   = Str(toFixed2(Mul(Mul(v(kLength), v(kWidth)), v(kPricePerSqFt))))

\* C6: for a raw line item whose properties contain Length and Width but no
\* PricePerSqFt, the produced line is the line produced for the same item
\* with no properties at all.
C6_NoPriceNoOverride ==
  Returned =>
    \A i \in 1..Len(RawLineItems) :
      LET it == RawLineItems[i]
      IN (HasKey(it, kLength) /\ HasKey(it, kWidth) /\ ~HasKey(it, kPricePerSqFt))
           => LineOf(i) = lineItem([it EXCEPT !.properties = NoProps])

C6_Witness ==
  /\ Returned
  /\ Len(RawLineItems) = 1
  /\ RawLineItems[1].properties = PropsList(<<eL10, eW8>>)
  /\ RawLineItems[1].quantity = Str(<<"3">>)
  /\ LineOf(1).quantity = IntNum(3)
  /\ LineOf(1).unitAmount = Str(<<"1", "2", ".", "5", "0">>)
  /\ LineOf(1).description = Str(<<"M", "a", "t">>)

\* The price of the first shipping line, as the input holds it.
FirstShippingPrice ==
  IF order.shipping_lines.t = "array" /\ Len(order.shipping_lines.items) >= 1
    THEN order.shipping_lines.items[1].price
  ELSE Undef

ShippingExpected == GtZero(parseFloat(FirstShippingPrice))

DiscountExpected == GtZero(parseFloat(order.total_discounts))

ExpectedExtra(desc, amount) ==
  [description |-> Str(desc), quantity |-> IntNum(1), unitAmount |-> Str(amount),
   accountCode |-> Str(<<"2", "0", "0">>), itemCode |-> Undef, taxType |-> Undef]

\* C7: the lineItems of the document are exactly one line per raw line item
\* in input order, then one "Shipping" line (quantity 1, the shipping price)
\* iff shipping_lines[0].price parses to a positive number, then one
\* "Discount" line (quantity 1, the negated discount) iff total_discounts
\* parses to a positive number, and no other line.
C7_LineItemsExactly ==
  Returned =>
    LET n == Len(RawLineItems)
        ns == IF ShippingExpected THEN 1 ELSE 0
        nd == IF DiscountExpected THEN 1 ELSE 0
        ls == result.doc.lineItems
    IN /\ Len(ls) = n + ns + nd
       /\ \A i \in 1..n : ls[i] = lineItem(RawLineItems[i])
       /\ ShippingExpected =>
            ls[n + 1] = ExpectedExtra(<<"S", "h", "i", "p", "p", "i", "n", "g">>,
                                      toFixed2(parseFloat(FirstShippingPrice)))
       /\ DiscountExpected =>
            ls[n + ns + 1] = ExpectedExtra(<<"D", "i", "s", "c", "o", "u", "n", "t">>,
                               <<"-">> \o toFixed2(parseFloat(order.total_discounts)))

C7_Witness ==
  /\ Returned
  /\ Len(RawLineItems) = 2
  /\ Len(result.doc.lineItems) = 4
  /\ result.doc.lineItems[3].unitAmount = Str(<<"1", "5", ".", "0", "0">>)
  /\ result.doc.lineItems[4].unitAmount = Str(<<"-", "5", ".", "0", "0">>)

\* The fields of a document that C8 names.
Core(doc) ==
  [contact |-> doc.contact, lineItems |-> doc.lineItems,
   reference |-> doc.reference, status |-> doc.status,
   currencyCode |-> doc.currencyCode]

\* C8: the document does not depend on total_tax: an order that differs from
\* this one only in total_tax yields a document with the same contact,
\* lineItems, reference, status and currencyCode.
C8_TaxIndependent ==
  Returned =>
    \A tx \in TaxInputs :
      LET other == transformOrderToInvoice([order EXCEPT !.total_tax = tx],
                                           now, now, now)
      IN other.status = "ok" /\ Core(other.doc) = Core(result.doc)

C8_Witness ==
  /\ Returned
  /\ order.total_tax = Str(<<"7", ".", "5">>)
  /\ Len(RawLineItems) = 2
  /\ ShippingExpected /\ DiscountExpected

\* C9: the contact name is never empty and is first_name, a space and
\* last_name when the customer has both; otherwise billing.name; otherwise
\* the top-level customer_name; otherwise "Walk-in Customer".
C9_ContactName ==
  Returned =>
    LET c == order.customer
        b == IF order.billing_address.t = "object" THEN order.billing_address
             ELSE c.default_address
        name == result.doc.contact.name
        both == Truthy(c.first_name) /\ Truthy(c.last_name)
    IN /\ name.t = "string" /\ name.s # <<>>
       /\ both => name.s = c.first_name.s \o <<" ">> \o c.last_name.s
       /\ (~both /\ Truthy(b.name)) => name = b.name
       /\ (~both /\ ~Truthy(b.name) /\ Truthy(order.customer_name))
            => name = order.customer_name
       /\ (~both /\ ~Truthy(b.name) /\ ~Truthy(order.customer_name))
            => name = Str(<<"W", "a", "l", "k", "-", "i", "n", " ", "C", "u", "s", "t", "o", "m", "e", "r">>)

C9_Witness ==
  /\ Returned
  /\ order.customer.first_name = Str(<<>>)
  /\ order.customer.last_name = Str(<<"D", "o", "e">>)
  /\ order.billing_address.t = "object"
  /\ order.billing_address.name = Undef
  /\ order.customer.default_address = FullAddress
  /\ order.customer_name = Str(<<"Z", "e", "d">>)
  /\ result.doc.contact.name = Str(<<"Z", "e", "d">>)

\* C10: the addresses list has exactly one entry when billing.address1 is
\* present and is empty otherwise; in the one-entry case every absent
\* sub-field (address2, city, region, zip, country) is the empty string.
C10_Addresses ==
  Returned =>
    LET b == IF order.billing_address.t = "object" THEN order.billing_address
             ELSE order.customer.default_address
        as == result.doc.contact.addresses
        absent(x) == x.t = "undefined"
        e == Str(<<>>)
    IN /\ Len(as) = IF Truthy(b.address1) THEN 1 ELSE 0
       /\ Truthy(b.address1) =>
            /\ as[1].addressLine1 = b.address1
            /\ absent(b.address2) => as[1].addressLine2 = e
            /\ absent(b.city) => as[1].city = e
            /\ (absent(b.province) /\ absent(b.state)) => as[1].region = e
            /\ absent(b.zip) => as[1].postalCode = e
            /\ absent(b.country) => as[1].country = e

C10_Witness ==
  /\ Returned
  /\ order.billing_address.address1 = Str(<<"9", " ", "E", "l", "m">>)
  /\ order.billing_address.city = Undef
  /\ order.billing_address.state = Undef
  /\ Len(result.doc.contact.addresses) = 1
  /\ result.doc.contact.addresses[1].city = Str(<<>>)
  /\ result.doc.contact.addresses[1].region = Str(<<>>)

----------------------------------------------------------------------------
(* Vocabulary of the properties of the routes, stated on the last request, *)
(* the external calls it made and its response.                            *)

OrderRequest == request.route \in {"shopify", "custom"}

QuoteRequest == request.route = "quote"

\* The request made a call of the external operation api.
CalledApi(api) == \E k \in 1..Len(calls) : calls[k].api = api

\* The documents the request submitted to createInvoices, in order.
Submitted == SelectSeq(calls, LAMBDA c : c.api = "createInvoices")

LacksCustomer(o) == o.customer.t \in {"undefined", "null"}

LacksLineItems(o) ==
  \/ o.line_items.t \in {"undefined", "null"}
  \/ o.line_items.t = "array" /\ o.line_items.items = <<>>

Refused == response.status >= 400 /\ ~response.success

\* C11: on both order endpoints, a request whose order has no customer or
\* no line items is answered with an error, and createInvoices is not
\* called for it.
C11_IncompleteOrderRefused ==
  OrderRequest /\ (LacksCustomer(request.body) \/ LacksLineItems(request.body))
    => Refused /\ ~CalledApi("createInvoices")

\* The quote of the request lacks its id, its customer's name, or its items.
QuoteLacksId == request.body.quoteId.t \in {"undefined", "null"}

QuoteLacksName ==
  \/ request.body.customer.t \in {"undefined", "null"}
  \/ request.body.customer.name.t \in {"undefined", "null"}

QuoteLacksItems ==
  \/ request.body.items.t \in {"undefined", "null"}
  \/ request.body.items.t = "array" /\ request.body.items.items = <<>>

\* C12: POST /send-quote-to-xero with quoteId missing, customer.name
\* missing, or items absent or empty is answered with a validation error
\* (400) and makes no external call at all.
C12_InvalidQuoteRefused ==
  QuoteRequest /\ (QuoteLacksId \/ QuoteLacksName \/ QuoteLacksItems)
    => /\ response.status = 400
       /\ ~response.success
       /\ response.error # NoMsg
       /\ calls = <<>>

\* A quote with id and customer name and an empty items list was refused.
C12_Witness ==
  /\ QuoteRequest
  /\ ~QuoteLacksId /\ ~QuoteLacksName
  /\ request.body.items = Items(<<>>)
  /\ response.status = 400

\* The i-th submitted document.
SubmittedDoc(k) == Submitted[k].arg

\* The document is the draft of the quote q: status DRAFT, the reference
\* naming the quote, and the quote's items line by line on account 200.
IsDraftOf(doc, q) ==
  /\ doc.Status = Str(<<"D", "R", "A", "F", "T">>)
  /\ doc.Reference = Str(<<"Q", "u", "o", "t", "e", ":", " ">> \o JSToString(q.quoteId))
  /\ Len(doc.LineItems) = Len(q.items.items)
  /\ \A i \in 1..Len(q.items.items) :
       /\ doc.LineItems[i].Description = q.items.items[i].description
       /\ doc.LineItems[i].Quantity = q.items.items[i].quantity
       /\ doc.LineItems[i].UnitAmount = q.items.items[i].unitAmount
       /\ doc.LineItems[i].AccountCode = Str(<<"2", "0", "0">>)

\* C13: every document submitted to createInvoices for a quote has status
\* DRAFT, reference "Quote: <quoteId>" and one line per quote item, in the
\* quote's order, each on account 200; every document submitted for an
\* order has status AUTHORISED.
C13_SubmittedDocuments ==
  \A k \in 1..Len(Submitted) :
    /\ QuoteRequest => IsDraftOf(SubmittedDoc(k), request.body)
    /\ OrderRequest =>
         SubmittedDoc(k).status = Str(<<"A", "U", "T", "H", "O", "R", "I", "S", "E", "D">>)

\* A quote of two items was submitted, its id a number.
C13_Witness ==
  /\ QuoteRequest
  /\ Len(Submitted) = 1
  /\ request.body.quoteId = IntNum(42)
  /\ Len(request.body.items.items) = 2

\* C14: in every document the builder returns, dueDate is the calendar
\* date 30 days after date, however the clock advances between the
\* builder's reads, a midnight between them included.
C14_DueThirtyDaysAfterDate ==
  Returned => result.doc.dueDate.day = result.doc.date.day + DueDays

\* The request is a custom order and its first two calls, the connection
\* and the organisation query of the currency default, both succeeded.
CurrencyQuerySucceeded ==
  /\ Len(calls) >= 2
  /\ calls[1].api = "ensureXeroConnection" /\ calls[1].result.ok
  /\ calls[2].api = "getOrganisations" /\ calls[2].result.ok

\* C15: the document of a custom order sent without currency carries the
\* organisation's base currency when the connection and the organisation
\* query both succeed and "USD" when either fails; the document of a custom
\* order sent with a currency carries that currency.
C15_CustomOrderCurrency ==
  request.route = "custom" =>
    \A k \in 1..Len(Submitted) :
      SubmittedDoc(k).currencyCode =
        IF request.body.currency.t # "undefined" THEN request.body.currency
        ELSE IF CurrencyQuerySucceeded THEN calls[2].result.baseCurrency
        ELSE Str(<<"U", "S", "D">>)

\* A custom order without currency was submitted in the base currency NZD.
C15_Witness ==
  /\ request.route = "custom"
  /\ request.body.currency.t = "undefined"
  /\ CurrencyQuerySucceeded
  /\ Len(Submitted) = 1
  /\ SubmittedDoc(1).currencyCode = Str(<<"N", "Z", "D">>)

\* The error text the response carries names the value v.
ReturnedErrorNames(v) == Names(response.error, v) \/ Names(response.details, v)

\* The k-th call is a createInvoices answered "not subscribed to currency"
\* and the call after it a getOrganisations that succeeded.
CurrencyRejectedAt(k) ==
  /\ calls[k].api = "createInvoices"
  /\ calls[k].result.kind = "not subscribed to currency"
  /\ calls[k + 1].api = "getOrganisations"
  /\ calls[k + 1].result.ok

\* C16: when createInvoices answers a "not subscribed to currency"
\* validation error and the getOrganisations call that follows succeeds
\* with base currency B, the error message of the response names B and the
\* rejected currency, on the three routes.
C16_CurrencyErrorNamesBoth ==
  \A k \in 1..(Len(calls) - 1) :
    CurrencyRejectedAt(k) =>
      /\ ReturnedErrorNames(calls[k + 1].result.baseCurrency)
      /\ calls[k].result.named # Undef => ReturnedErrorNames(calls[k].result.named)

\* The raw line items the request's order carries.
RequestItems ==
  IF OrderRequest /\ request.body.line_items.t = "array"
    THEN request.body.line_items.items
  ELSE <<>>

\* The normalizations the request made: each raw line item of its order
\* with the line that stands for it in a submitted document.
Normalized ==
  {<<RequestItems[i], SubmittedDoc(k).lineItems[i]>> :
     i \in 1..Len(RequestItems), k \in 1..Len(Submitted)}

RECURSIVE KeepLast(_)
KeepLast(es) ==
  IF es = <<>> THEN <<>>
  ELSE IF \E j \in 2..Len(es) : es[j].name = es[1].name THEN KeepLast(Tail(es))
  ELSE <<es[1]>> \o KeepLast(Tail(es))

HasDuplicateNames(item) ==
  /\ item.properties.t = "array"
  /\ KeepLast(item.properties.entries) # item.properties.entries

\* C18: a raw line item whose properties list names a property several
\* times is normalized as the item with, of each name, only the last entry:
\* the last value decides whether area pricing applies and enters the area.
C18_LastEntryWins ==
  Returned =>
    \A i \in 1..Len(RawLineItems) :
      HasDuplicateNames(RawLineItems[i]) =>
        LineOf(i) = lineItem([RawLineItems[i] EXCEPT
                                !.properties.entries = KeepLast(@)])

\* Length 10 then Length 4, Width 8, PricePerSqFt 1.5: the line is priced
\* 4 x 8 x 1.5; Length 0 then Length 10: the line is priced 10 x 8 x 1.5.
C18_Witness ==
  /\ Returned
  /\ \E i \in 1..Len(RawLineItems) :
       \/ /\ RawLineItems[i].properties = PropsList(<<eL10, eW8, eP1_5, Entry(kLength, Str(<<"4">>))>>)
          /\ LineOf(i).unitAmount = Str(<<"4", "8", ".", "0", "0">>)
       \/ /\ RawLineItems[i].properties = PropsList(<<Entry(kLength, IntNum(0)), eW8, eP1_5, eL10>>)
          /\ LineOf(i).unitAmount = Str(<<"1", "2", "0", ".", "0", "0">>)

\* The document's invoice number and reference, as the claim reads them: a
\* field is present when it holds a value JavaScript takes for true.
ExpectedInvoiceNumber ==
  IF Truthy(order.order_number) THEN order.order_number
  ELSE IF Truthy(order.name) THEN order.name
  ELSE Str(<<"I", "N", "V", "-">> \o NatDigits(now))

ExpectedReference ==
  Str(<<"O", "r", "d", "e", "r", ":", " ">>
        \o JSToString(IF Truthy(order.order_number) THEN order.order_number
                       ELSE order.id))

\* C19: the document's invoiceNumber is the order's order_number when
\* present, else its name, else "INV-" and the clock's epoch reading; its
\* reference is "Order: " and the order_number when present, else the id.
C19_NumberAndReference ==
  Returned =>
    /\ result.doc.invoiceNumber = ExpectedInvoiceNumber
    /\ result.doc.reference = ExpectedReference

\* An order with a name and the order number 1042 was built, and so was
\* one with neither.
C19_Witness ==
  /\ Returned
  /\ \/ /\ order.order_number = IntNum(1042) /\ Truthy(order.name)
        /\ result.doc.invoiceNumber = IntNum(1042)
        /\ result.doc.reference = Str(<<"O", "r", "d", "e", "r", ":", " ", "1", "0", "4", "2">>)
     \/ /\ ~Truthy(order.order_number) /\ ~Truthy(order.name)
        /\ order.id = Str(<<"A", "7">>)
        /\ result.doc.invoiceNumber = Str(<<"I", "N", "V", "-">> \o NatDigits(now))
        /\ result.doc.reference = Str(<<"O", "r", "d", "e", "r", ":", " ", "A", "7">>)

\* The store holds the invoice record of an order whose id, written in a
\* URL, is the text p.
InvoicedAs(key, p) ==
  /\ invoiceRecords[key].error = NoMsg
  /\ JSToString(invoiceRecords[key].orderId) = p

\* C20: once an order with id X has been turned into an invoice, GET
\* /invoice/X answers with that order's invoice record, the id being a
\* text or a number.
C20_InvoiceFoundById ==
  request.route = "invoice" =>
    \A key \in DOMAIN invoiceRecords :
      InvoicedAs(key, request.body.s) =>
        response.status = 200 /\ response.invoice = invoiceRecords[key]

----------------------------------------------------------------------------
(* Properties of the OAuth routes.                                         *)

\* C21: a GET /auth request is answered with the consent redirect only when
\* every consent redirected before it has had its callback handled or was
\* accepted at least ten seconds earlier.
C21_OneConsentAtATime ==
  \A j \in DOMAIN flows :
    flows[j].state = "redirected" =>
      \A i \in flows[j].open : flows[j].at - flows[i].at >= FlagResetDelay

\* Every two accepted GET /auth requests are AUTH_COOLDOWN or more apart.
AcceptedApart ==
  \A i, j \in DOMAIN flows :
    i < j => flows[j].at - flows[i].at >= AUTH_COOLDOWN

\* A step that is a GET /auth request answered by one of the early returns.
AuthRejected == served' = served + 1 /\ flows' = flows

\* C22: accepted GET /auth requests are at least AUTH_COOLDOWN apart, and a
\* rejected one leaves isAuthInProgress and lastAuthTime as they were.
C22_CooldownBetweenAccepted ==
  [][/\ AcceptedApart'
     /\ AuthRejected => UNCHANGED <<isAuthInProgress, lastAuthTime>>]_vars

\* Two requests were accepted and another one was turned away.
C22_Witness == Len(flows) >= 2 /\ served > Len(flows)

\* C23: whenever isAuthInProgress is set it is cleared again later, by the
\* callback, the catch block or the timer.
C23_FlagEventuallyCleared == isAuthInProgress ~> ~isAuthInProgress

\* The timer cleared the flag of a consent whose callback never came, and a
\* later request was accepted.
C23_Witness ==
  /\ Len(flows) >= 2
  /\ flows[1].state = "redirected" /\ ~flows[1].handled
  /\ flows[2].at - flows[1].at >= FlagResetDelay

\* No call of validateJWT is waiting for the original method.
NoneInFlight == \A c \in DOMAIN validations : validations[c].pc # "awaiting"

\* C24: once every call of the patched validateJWT on a client has
\* completed, by returning, by returning the decoded payload or by
\* rethrowing, the client's clockTolerance is what it was before the calls.
C24_ToleranceRestored == NoneInFlight => clockTolerance = configured

\* C25: when the last callback exchanged the code and fetched the tenant,
\* the tokens.json it left carries that tenant's id, whatever
\* initializeWithTokens did afterwards.
C25_SavedTenantId ==
  callback.tenant # Undef => files[cwd].tenant_id = callback.tenant

\* C26: every createInvoices call is made with the tenant id that a
\* successful connection to Xero returned, never with undefined.
C26_InvoicesForConnectedTenant ==
  \A k \in DOMAIN calls :
    calls[k].api = "createInvoices" =>
      /\ calls[k].arg.tenantId # Undef
      /\ calls[k].arg.tenantId = globalTenantId


\* C30: after a callback that saved tokens, loadTokensFromFile returns the
\* token set that callback saved, in whichever directory the server runs.
C30_LoadedAreSaved ==
  callback.tokenSet # NoTokenSet =>
    /\ loadedTokens(files) # Null
    /\ loadedTokens(files).tokenSet = callback.tokenSet

----------------------------------------------------------------------------
(* Properties of the record store.                                         *)

\* A step that handles a request to one of the two order routes.
OrderStep ==
  served' = served + 1 /\ request'.route \in {"shopify", "custom"}

\* createInvoices answered the request with an invoice free of validation
\* errors.
InvoiceCreated ==
  \E k \in 1..Len(calls) :
    calls[k].api = "createInvoices" /\ calls[k].result.kind = "created"

\* The step added or replaced the record under key and touched no other.
StoredOnlyUnder(key) ==
  /\ DOMAIN invoiceRecords' = DOMAIN invoiceRecords \cup {key}
  /\ \A k \in DOMAIN invoiceRecords \ {key} : invoiceRecords'[k] = invoiceRecords[k]

\* C27: an order request is answered with success only when createInvoices
\* returned an invoice without validation errors, and then the record is
\* stored under the order's id; every other request that passed input
\* validation is answered 500 and stores an error record under
\* "error-<order id>" and nothing else.
C27_SuccessOrErrorRecord ==
  [][OrderStep =>
       IF response'.success
         THEN /\ InvoiceCreated'
              /\ StoredOnlyUnder(request'.body.id)
              /\ invoiceRecords'[request'.body.id].error = NoMsg
       ELSE IF response'.status = 400
         THEN UNCHANGED invoiceRecords
       ELSE /\ ~InvoiceCreated'
            /\ response'.status = 500
            /\ StoredOnlyUnder(ErrorKey(request'.body.id))
            /\ invoiceRecords'[ErrorKey(request'.body.id)].error # NoMsg]_vars

\* An order was refused by Xero's validation after another one had been
\* invoiced: the error record is there and the earlier record is kept.
C27_Witness ==
  /\ OrderRequest /\ response.status = 500 /\ CalledApi("createInvoices")
  /\ MapHas(invoiceRecords, ErrorKey(request.body.id))
  /\ \E key \in DOMAIN invoiceRecords : invoiceRecords[key].error = NoMsg

\* C28: GET /debug/status answers success: true, and the errors count it
\* reports is the number of records GET /invoices lists under errors.
C28_StatusCountsErrors ==
  request.route = "debug/status" =>
    /\ response.success
    /\ response.invoice.errors = Cardinality(listedErrors)

----------------------------------------------------------------------------
(* The description of an area-priced line.                                 *)

\* The description the line has without area pricing: the title, else the
\* name, else "Product".
BaseDescription(item) ==
  IF Truthy(item.title) THEN item.title
  ELSE IF Truthy(item.name) THEN item.name
  ELSE Str(<<"P", "r", "o", "d", "u", "c", "t">>)

\* C29: the description of an area-priced line is the base description of
\* its item followed by " - <Length>ft x <Width>ft (<area> sq ft)", the
\* area to two decimals; an item with a name and no title starts with the
\* name.
C29_AreaDescriptionKeepsBase ==
  Returned =>
    \A i \in 1..Len(RawLineItems) :
      LET it == RawLineItems[i]
          e == it.properties.entries
          L == PropGet(e, kLength)
          W == PropGet(e, kWidth)
      IN (it.properties.t = "array" /\ Truthy(L) /\ Truthy(W)
            /\ Truthy(PropGet(e, kPricePerSqFt)))
           => LineOf(i).description
                = Str(BaseDescription(it).s \o <<" ", "-", " ">>
                        \o JSToString(L) \o <<"f", "t", " ", "x", " ">>
                        \o JSToString(W) \o <<"f", "t", " ", "(">>
                        \o toFixed2(Mul(parseFloat(L), parseFloat(W)))
                        \o <<" ", "s", "q", " ", "f", "t", ")">>)

====
